---- MODULE Spec2Model ----
(***************************************************************************)
(* Model of src/src/parser.rs: PatchProcessor::process (the patch applier) *)
(* and PatchProcessor::convert / get_context_header (the patch builder).   *)
(*                                                                         *)
(* process is modelled as a state machine over its locals (the `frame`),   *)
(* one step per loop iteration or statement; convert as a state machine    *)
(* over the children of the whole-patch node, one step per child.          *)
(***************************************************************************)
EXTENDS Integers, Sequences, FiniteSets, TLC

VARIABLES
    text,             \* PatchProcessor.text: the original lines
    contexts,         \* PatchProcessor.patch.contexts
    frame,            \* the locals of one call of process(text, contexts)
    contexts2,        \* a second patch, applied to the same text (SpecTwin)
    frame2,           \* the locals of process(text, contexts2)
    tree,             \* the children of the whole-patch parse node
    overflow_checks,  \* build profile: TRUE = arithmetic overflow panics
    cv                \* the locals of one call of convert(tree)

vars == <<text, contexts, frame, contexts2, frame2, tree, overflow_checks, cv>>

(***************************************************************************)
(* Bounds of the model.                                                    *)
(***************************************************************************)
\* longest original line sequence
MaxLen == 2
\* largest patch: number of hunks plus number of patch lines
MaxPatchSize == 3
\* largest patch of SpecTwin: number of hunks plus number of patch lines
MaxTwinSize == 2
\* largest parse tree: number of hunk nodes plus number of their children
MaxTreeSize == 4
\* width of usize in the model (64 in the build; scaled so that TLC's
\* integers can hold every value the arithmetic produces)
UsizeBits == 16

UsizeMax == 2 ^ UsizeBits - 1

\* the line texts of the original and of the patch
Lines == {"a", "b"}

\* the largest normalized old-range start: one past the longest original
MaxStart == MaxLen + 1

(***************************************************************************)
(* The domain model: PatchLine, ContextHeader, Context.                    *)
(***************************************************************************)
PatchLine == [kind : {"Context", "Insert", "Delete"}, data : Lines]

ContextHeader(l1, s1, l2, s2) ==
    [file1_l |-> l1, file1_s |-> s1, file2_l |-> l2, file2_s |-> s2]

Context(h, d) == [header |-> h, data |-> d]

\* PatchResult<T>
Ok(v) == [tag |-> "Ok", value |-> v]
AbruptInput(i) == [tag |-> "Err", error |-> "AbruptInput", index |-> i]
PatchInputMismatch(i) ==
    [tag |-> "Err", error |-> "PatchInputMismatch", index |-> i]
NotFound(what) == [tag |-> "Err", error |-> "NotFound", what |-> what]
MalformedPatch == [tag |-> "Err", error |-> "MalformedPatch"]
ParseIntError == [tag |-> "Err", error |-> "ParseInt"]
\* the thread unwinds: convert returns nothing
Panic == [tag |-> "Panic"]
\* the call has not returned yet
Running == [tag |-> "Running"]

IsOk(r) == r.tag = "Ok"
IsErr(r) == r.tag = "Err"

\* Vec::get(i): Some(line) when i is inside the vector
HasIndex(v, i) == i < Len(v)
Get(v, i) == v[i + 1]

(***************************************************************************)
(* PatchProcessor::process, parser.rs:52-108.                              *)
(*                                                                         *)
(* frame.pc is the statement control stands at:                            *)
(*   "hunk"   the head of `for context in &self.patch.contexts` (line 56)  *)
(*   "copy"   the body of `for i in file1_ptr..file1_l`     (lines 57-64)  *)
(*   "cursor" `file1_ptr = context.header.file1_l`             (line 65)   *)
(*   "line"   the body of `for line in &context.data`       (lines 66-95)  *)
(*   "rest"   the body of `for i in file1_ptr..self.text.len()` (98-105)   *)
(*   "ret"    `Ok(file2_text)`                                 (line 107)  *)
(* frame.ci is the number of the context being processed (0 before the     *)
(* first), frame.li the number of its lines already processed, frame.i the *)
(* loop variable of the two copy loops.  frame.ret is the value returned:  *)
(* the call has returned as soon as it is not Running, and pc then names   *)
(* the statement that returned.                                            *)
(***************************************************************************)
InitFrame ==
    [pc |-> "hunk", ci |-> 0, li |-> 0, i |-> 0,
     file1_ptr |-> 0, file2_text |-> <<>>, ret |-> Running]

Returned(f) == f.ret.tag # "Running"

CurContext(ctxs, f) == ctxs[f.ci]
CurLine(ctxs, f) == ctxs[f.ci].data[f.li + 1]

\* where control goes once line number li of the current context is done
AfterLine(ctxs, f, li) ==
    IF li < Len(CurContext(ctxs, f).data) THEN "line" ELSE "hunk"

\* line 56 (and, once the contexts are exhausted, the range of line 98):
\* take the next context and open the range file1_ptr..file1_l
NextContext(txt, ctxs, f) ==
    IF f.ci < Len(ctxs)
    THEN [f EXCEPT !.ci = f.ci + 1,
                   !.li = 0,
                   !.i = f.file1_ptr,
                   !.pc = IF f.file1_ptr < ctxs[f.ci + 1].header.file1_l
                          THEN "copy" ELSE "cursor"]
    ELSE [f EXCEPT !.i = f.file1_ptr,
                   !.pc = IF f.file1_ptr < Len(txt) THEN "rest" ELSE "ret"]

\* CopyBefore reporting the hunk's start instead of the missing index
CopyBeforeReportsStart(txt, ctxs, f) ==
    IF HasIndex(txt, f.i)
    THEN [f EXCEPT !.file2_text = Append(@, Get(txt, f.i)),
                   !.i = f.i + 1,
                   !.pc = IF f.i + 1 < CurContext(ctxs, f).header.file1_l
                          THEN "copy" ELSE "cursor"]
    ELSE [f EXCEPT !.ret = AbruptInput(CurContext(ctxs, f).header.file1_l)]

\* CopyBefore ending the copy at the end of the original without an error
CopyBeforeStopsAtEnd(txt, ctxs, f) ==
    IF HasIndex(txt, f.i)
    THEN [f EXCEPT !.file2_text = Append(@, Get(txt, f.i)),
                   !.i = f.i + 1,
                   !.pc = IF f.i + 1 < CurContext(ctxs, f).header.file1_l
                          THEN "copy" ELSE "cursor"]
    ELSE [f EXCEPT !.pc = "cursor"]

\* lines 57-64: one iteration of the copy of the lines before the hunk
CopyBefore(txt, ctxs, f) ==
    IF HasIndex(txt, f.i)
    THEN [f EXCEPT !.file2_text = Append(@, Get(txt, f.i)),
                   !.i = f.i + 1,
                   !.pc = IF f.i + 1 < CurContext(ctxs, f).header.file1_l
                          THEN "copy" ELSE "cursor"]
    ELSE [f EXCEPT !.ret = AbruptInput(f.i)]

\* SetCursor skipping the lines of a hunk whose header declares none
SetCursorTrustsHeader(txt, ctxs, f) ==
    [f EXCEPT !.file1_ptr = CurContext(ctxs, f).header.file1_l,
              !.pc = IF CurContext(ctxs, f).header.file1_s
                        + CurContext(ctxs, f).header.file2_s = 0
                     THEN "hunk" ELSE AfterLine(ctxs, f, 0)]

\* line 65
SetCursor(txt, ctxs, f) ==
    [f EXCEPT !.file1_ptr = CurContext(ctxs, f).header.file1_l,
              !.pc = AfterLine(ctxs, f, 0)]

\* ApplyContext reporting a mismatch with a 1-based line number
ApplyContextOneBased(txt, ctxs, f) ==
    IF ~HasIndex(txt, f.file1_ptr)
    THEN [f EXCEPT !.ret = AbruptInput(f.file1_ptr)]
    ELSE IF Get(txt, f.file1_ptr) # CurLine(ctxs, f).data
    THEN [f EXCEPT !.ret = PatchInputMismatch(f.file1_ptr + 1)]
    ELSE [f EXCEPT !.file2_text = Append(@, CurLine(ctxs, f).data),
                   !.file1_ptr = f.file1_ptr + 1,
                   !.li = f.li + 1,
                   !.pc = AfterLine(ctxs, f, f.li + 1)]

\* lines 68-79
ApplyContext(txt, ctxs, f) ==
    IF ~HasIndex(txt, f.file1_ptr)
    THEN [f EXCEPT !.ret = AbruptInput(f.file1_ptr)]
    ELSE IF Get(txt, f.file1_ptr) # CurLine(ctxs, f).data
    THEN [f EXCEPT !.ret = PatchInputMismatch(f.file1_ptr)]
    ELSE [f EXCEPT !.file2_text = Append(@, CurLine(ctxs, f).data),
                   !.file1_ptr = f.file1_ptr + 1,
                   !.li = f.li + 1,
                   !.pc = AfterLine(ctxs, f, f.li + 1)]

\* ApplyDelete keeping the line it matched
ApplyDeleteKeepsLine(txt, ctxs, f) ==
    IF ~HasIndex(txt, f.file1_ptr)
    THEN [f EXCEPT !.ret = AbruptInput(f.file1_ptr)]
    ELSE IF Get(txt, f.file1_ptr) # CurLine(ctxs, f).data
    THEN [f EXCEPT !.ret = PatchInputMismatch(f.file1_ptr)]
    ELSE [f EXCEPT !.file2_text = Append(@, CurLine(ctxs, f).data),
                   !.file1_ptr = f.file1_ptr + 1,
                   !.li = f.li + 1,
                   !.pc = AfterLine(ctxs, f, f.li + 1)]

\* lines 80-90
ApplyDelete(txt, ctxs, f) ==
    IF ~HasIndex(txt, f.file1_ptr)
    THEN [f EXCEPT !.ret = AbruptInput(f.file1_ptr)]
    ELSE IF Get(txt, f.file1_ptr) # CurLine(ctxs, f).data
    THEN [f EXCEPT !.ret = PatchInputMismatch(f.file1_ptr)]
    ELSE [f EXCEPT !.file1_ptr = f.file1_ptr + 1,
                   !.li = f.li + 1,
                   !.pc = AfterLine(ctxs, f, f.li + 1)]

\* ApplyInsert advancing the cursor
ApplyInsertAdvances(txt, ctxs, f) ==
    [f EXCEPT !.file2_text = Append(@, CurLine(ctxs, f).data),
              !.file1_ptr = f.file1_ptr + 1,
              !.li = f.li + 1,
              !.pc = AfterLine(ctxs, f, f.li + 1)]

\* lines 91-93
ApplyInsert(txt, ctxs, f) ==
    [f EXCEPT !.file2_text = Append(@, CurLine(ctxs, f).data),
              !.li = f.li + 1,
              !.pc = AfterLine(ctxs, f, f.li + 1)]

\* CopyRest reading the line at the cursor instead of the line at i
CopyRestAtCursor(txt, ctxs, f) ==
    IF HasIndex(txt, f.i)
    THEN [f EXCEPT !.file2_text = Append(@, Get(txt, f.file1_ptr)),
                   !.i = f.i + 1,
                   !.pc = IF f.i + 1 < Len(txt) THEN "rest" ELSE "ret"]
    ELSE [f EXCEPT !.ret = AbruptInput(f.i)]

\* lines 98-105: one iteration of the copy of the remaining lines
CopyRest(txt, ctxs, f) ==
    IF HasIndex(txt, f.i)
    THEN [f EXCEPT !.file2_text = Append(@, Get(txt, f.i)),
                   !.i = f.i + 1,
                   !.pc = IF f.i + 1 < Len(txt) THEN "rest" ELSE "ret"]
    ELSE [f EXCEPT !.ret = AbruptInput(f.i)]

\* line 107
ReturnOk(txt, ctxs, f) == [f EXCEPT !.ret = Ok(f.file2_text)]

\* the match of lines 67-94
ApplyLine(txt, ctxs, f) ==
    CASE CurLine(ctxs, f).kind = "Context" -> ApplyContext(txt, ctxs, f)
      [] CurLine(ctxs, f).kind = "Delete" -> ApplyDelete(txt, ctxs, f)
      [] CurLine(ctxs, f).kind = "Insert" -> ApplyInsert(txt, ctxs, f)

\* one step of process, whatever statement control stands at
Advance(txt, ctxs, f) ==
    CASE f.pc = "hunk" -> NextContext(txt, ctxs, f)
      [] f.pc = "copy" -> CopyBefore(txt, ctxs, f)
      [] f.pc = "cursor" -> SetCursor(txt, ctxs, f)
      [] f.pc = "line" -> ApplyLine(txt, ctxs, f)
      [] f.pc = "rest" -> CopyRest(txt, ctxs, f)
      [] f.pc = "ret" -> ReturnOk(txt, ctxs, f)

(***************************************************************************)
(* The inputs of process.                                                  *)
(***************************************************************************)
SeqsUpTo(S, n) == UNION {[1..k -> S] : k \in 0..n}

Texts == SeqsUpTo(Lines, MaxLen)

\* file1_s, file2_l, file2_s of a header: process never reads them
HeaderRests == {<<0, 0, 0>>, <<3, 1, 2>>}

HunksUpTo(n, rests) ==
    {Context(ContextHeader(l, r[1], r[2], r[3]), d) :
        l \in 0..MaxStart, r \in rests, d \in SeqsUpTo(PatchLine, n)}

\* the patches of at most `budget` hunks and patch lines together
RECURSIVE PatchesOf(_, _)
PatchesOf(budget, rests) ==
    IF budget <= 0 THEN {<<>>}
    ELSE {<<>>} \cup
         UNION {{<<h>> \o p : p \in PatchesOf(budget - 1 - Len(h.data), rests)} :
                    h \in HunksUpTo(budget - 1, rests)}

\* the patches that differ from p only in file1_s, file2_l, file2_s
Variants(p) ==
    {[k \in DOMAIN p |->
        Context(ContextHeader(p[k].header.file1_l, r[k][1], r[k][2], r[k][3]),
                p[k].data)] : r \in [DOMAIN p -> HeaderRests]}

(***************************************************************************)
(* The parse tree handed to convert.  A node is [rule, str, inner]: its    *)
(* grammar rule, the text it matched and its children.  The text of a      *)
(* number field is its sequence of decimal digits.                         *)
(***************************************************************************)
Node(rule, str, inner) == [rule |-> rule, str |-> str, inner |-> inner]

\* Option<T>
None == [some |-> FALSE]
Some(x) == [some |-> TRUE, value |-> x]

\* str::parse::<usize>() on a string of decimal digits: the value, or an
\* error for the empty string and for a value beyond usize::MAX
RECURSIVE ParseDigits(_, _, _)
ParseDigits(ds, k, acc) ==
    IF k > Len(ds) THEN Ok(acc)
    ELSE IF acc * 10 + ds[k] > UsizeMax THEN ParseIntError
    ELSE ParseDigits(ds, k + 1, acc * 10 + ds[k])

ParseUsize(ds) == IF ds = <<>> THEN ParseIntError ELSE ParseDigits(ds, 1, 0)

\* `x -= 1` on a usize: below zero the build either panics (overflow
\* checks on) or wraps around (overflow checks off)
SubOne(x, checks) ==
    IF x >= 1 THEN Ok(x - 1)
    ELSE IF checks THEN Panic
    ELSE Ok((x - 1) % (UsizeMax + 1))

FieldRules == {"file1_l", "file1_s", "file2_l", "file2_s"}

\* lines 186-194: the loop over the header's children
RECURSIVE ParseFields(_, _, _)
ParseFields(inner, k, out) ==
    IF k > Len(inner) THEN Ok(out)
    ELSE IF inner[k].rule \in FieldRules
    THEN IF IsOk(ParseUsize(inner[k].str))
         THEN ParseFields(inner, k + 1,
                  [out EXCEPT ![inner[k].rule] = ParseUsize(inner[k].str).value])
         ELSE ParseIntError
    ELSE ParseFields(inner, k + 1, out)

\* lines 184-198
get_context_header(header, checks) ==
    LET parsed == ParseFields(header.inner, 1, ContextHeader(0, 0, 0, 0))
    IN  IF ~IsOk(parsed) THEN parsed
        ELSE LET l1 == SubOne(parsed.value.file1_l, checks)
             IN  IF ~IsOk(l1) THEN l1
                 ELSE LET l2 == SubOne(parsed.value.file2_l, checks)
                      IN  IF ~IsOk(l2) THEN l2
                          ELSE Ok([parsed.value EXCEPT !.file1_l = l1.value,
                                                       !.file2_l = l2.value])

\* lines 152-165: the children after the first, as patch lines
RECURSIVE LinesOf(_)
LinesOf(children) ==
    IF children = <<>> THEN <<>>
    ELSE LET c == Head(children)
         IN  (CASE c.rule = "line_context" ->
                     <<[kind |-> "Context", data |-> c.str]>>
                [] c.rule = "line_deleted" ->
                     <<[kind |-> "Delete", data |-> c.str]>>
                [] c.rule = "line_inserted" ->
                     <<[kind |-> "Insert", data |-> c.str]>>
                [] OTHER -> <<>>)
             \o LinesOf(Tail(children))

\* lines 122-126 and 129-133: the last child that is a path, if any
PathOf(inner, old) ==
    LET paths == SelectSeq(inner, LAMBDA c : c.rule = "path")
    IN  IF paths = <<>> THEN old ELSE Some(paths[Len(paths)].str)

(***************************************************************************)
(* PatchProcessor::convert, parser.rs:110-182.                             *)
(*                                                                         *)
(* cv.pc is "parse" (lines 111-113), "elems" (the loop of lines 119-170,   *)
(* cv.idx being the child of the whole-patch node it stands at) or         *)
(* "finish" (lines 172-181); cv.ret is the value returned.                 *)
(***************************************************************************)
InitConv ==
    [pc |-> "parse", idx |-> 1, input |-> None, output |-> None,
     contexts |-> <<>>, ret |-> Running]

CurElem(tr, c) == tr.inner[c.idx]

\* the loop of line 119 moves to its next element, or ends
NextElem(tr, c) ==
    [c EXCEPT !.idx = c.idx + 1,
              !.pc = IF c.idx + 1 <= Len(tr.inner) THEN "elems" ELSE "finish"]

\* lines 111-113: tr.parse is the outcome of the grammar parser
ConvParse(tr, checks, c) ==
    IF tr.parse = "GrammarError"
    THEN [c EXCEPT !.ret = [tag |-> "Err", error |-> "Grammar"]]
    ELSE IF tr.parse = "NoPair"
    THEN [c EXCEPT !.ret = NotFound("patch")]
    ELSE [c EXCEPT !.pc = IF Len(tr.inner) >= 1 THEN "elems" ELSE "finish"]

\* lines 121-127
ConvFile1Header(tr, checks, c) ==
    NextElem(tr, [c EXCEPT !.input = PathOf(CurElem(tr, c).inner, c.input)])

\* lines 128-134
ConvFile2Header(tr, checks, c) ==
    NextElem(tr, [c EXCEPT !.output = PathOf(CurElem(tr, c).inner, c.output)])

\* ConvContext passing over a hunk node whose first child is no header
ConvContextSkipsHeaderless(tr, checks, c) ==
    LET peg_context == CurElem(tr, c).inner
    IN  IF peg_context = <<>> \/ Head(peg_context).rule # "context_header"
        THEN NextElem(tr, c)
        ELSE LET context_header == get_context_header(Head(peg_context), checks)
             IN  IF ~IsOk(context_header)
                 THEN [c EXCEPT !.ret = context_header]
                 ELSE NextElem(tr,
                        [c EXCEPT !.contexts =
                            Append(@, Context(context_header.value,
                                              LinesOf(Tail(peg_context))))])

\* lines 135-167
ConvContext(tr, checks, c) ==
    LET peg_context == CurElem(tr, c).inner
    IN  IF peg_context = <<>>
        THEN [c EXCEPT !.ret = NotFound("context_header")]
        ELSE IF Head(peg_context).rule # "context_header"
        THEN [c EXCEPT !.ret = MalformedPatch]
        ELSE LET context_header == get_context_header(Head(peg_context), checks)
             IN  IF ~IsOk(context_header)
                 THEN [c EXCEPT !.ret = context_header]
                 ELSE NextElem(tr,
                        [c EXCEPT !.contexts =
                            Append(@, Context(context_header.value,
                                              LinesOf(Tail(peg_context))))])

\* line 168
ConvSkip(tr, checks, c) == NextElem(tr, c)

\* lines 172-181
ConvFinish(tr, checks, c) ==
    IF ~c.input.some THEN [c EXCEPT !.ret = NotFound("path (input)")]
    ELSE IF ~c.output.some THEN [c EXCEPT !.ret = NotFound("path (output)")]
    ELSE [c EXCEPT !.ret = Ok([input |-> c.input.value,
                               output |-> c.output.value,
                               contexts |-> c.contexts])]

(***************************************************************************)
(* The parse trees: an input-path line, an output-path line (each with or  *)
(* without a path), hunk nodes, and the end-of-input token.  A hunk node's *)
(* children are headers and lines in any order.                            *)
(***************************************************************************)
\* digits of a number beyond usize::MAX
TooManyDigits == <<9, 9, 9, 9, 9, 9>>

\* the number fields of the headers: file1_l, file2_l, file2_s
\* (old-range start 0 or not, new-range start 0 or not, a length too long)
HeaderFields ==
    {<<<<0>>, <<2>>, <<4>>>>,
     <<<<1, 2>>, <<0>>, <<4>>>>,
     <<<<0>>, <<0>>, <<4>>>>,
     <<<<1, 2>>, <<2>>, <<4>>>>,
     <<<<1, 2>>, <<2>>, TooManyDigits>>}

HeaderNodes ==
    {Node("context_header", "", <<Node("file1_l", h[1], <<>>),
                                  Node("file1_s", <<3>>, <<>>),
                                  Node("file2_l", h[2], <<>>),
                                  Node("file2_s", h[3], <<>>)>>) :
        h \in HeaderFields}

LineNodes ==
    {Node(r, "a", <<>>) :
        r \in {"line_context", "line_deleted", "line_inserted", "newline"}}

HunkNodesUpTo(n) ==
    {Node("context", "", cs) : cs \in SeqsUpTo(HeaderNodes \cup LineNodes, n)}

\* the sequences of hunk nodes of at most `budget` nodes and children
RECURSIVE HunkSeqs(_)
HunkSeqs(budget) ==
    IF budget <= 0 THEN {<<>>}
    ELSE {<<>>} \cup
         UNION {{<<h>> \o hs : hs \in HunkSeqs(budget - 1 - Len(h.inner))} :
                    h \in HunkNodesUpTo(budget - 1)}

PathChildren == {<<>>, <<Node("path", "f", <<>>)>>}

Parsed(inner) == [parse |-> "Pair", inner |-> inner]

ParseResults ==
    {[parse |-> "GrammarError", inner |-> <<>>],
     [parse |-> "NoPair", inner |-> <<>>]}
    \cup
    {Parsed(<<Node("file1_header", "", p1), Node("file2_header", "", p2)>>
                \o hs \o <<Node("EOI", "", <<>>)>>) :
        p1 \in PathChildren, p2 \in PathChildren, hs \in HunkSeqs(MaxTreeSize)}

\* convert is not running
IdleTree == [parse |-> "Idle", inner |-> <<>>]

(***************************************************************************)
(* Spec: one call of process on any text and any patch.                    *)
(***************************************************************************)
Init ==
    /\ text \in Texts
    /\ contexts \in PatchesOf(MaxPatchSize, {<<0, 0, 0>>})
    /\ frame = InitFrame
    /\ contexts2 = contexts
    /\ frame2 = InitFrame
    /\ tree = IdleTree
    /\ overflow_checks = FALSE
    /\ cv = InitConv

Others == <<text, contexts, contexts2, frame2, tree, overflow_checks, cv>>

At(pc) == ~Returned(frame) /\ frame.pc = pc

StepNextContext ==
    /\ At("hunk")
    /\ frame' = NextContext(text, contexts, frame)
    /\ UNCHANGED Others

StepCopyBefore ==
    /\ At("copy")
    /\ frame' = CopyBefore(text, contexts, frame)
    /\ UNCHANGED Others

StepSetCursor ==
    /\ At("cursor")
    /\ frame' = SetCursor(text, contexts, frame)
    /\ UNCHANGED Others

StepApplyContext ==
    /\ At("line")
    /\ CurLine(contexts, frame).kind = "Context"
    /\ frame' = ApplyContext(text, contexts, frame)
    /\ UNCHANGED Others

StepApplyDelete ==
    /\ At("line")
    /\ CurLine(contexts, frame).kind = "Delete"
    /\ frame' = ApplyDelete(text, contexts, frame)
    /\ UNCHANGED Others

StepApplyInsert ==
    /\ At("line")
    /\ CurLine(contexts, frame).kind = "Insert"
    /\ frame' = ApplyInsert(text, contexts, frame)
    /\ UNCHANGED Others

StepCopyRest ==
    /\ At("rest")
    /\ frame' = CopyRest(text, contexts, frame)
    /\ UNCHANGED Others

StepReturnOk ==
    /\ At("ret")
    /\ frame' = ReturnOk(text, contexts, frame)
    /\ UNCHANGED Others

Next ==
    \/ StepNextContext
    \/ StepCopyBefore
    \/ StepSetCursor
    \/ StepApplyContext
    \/ StepApplyDelete
    \/ StepApplyInsert
    \/ StepCopyRest
    \/ StepReturnOk

Spec == Init /\ [][Next]_vars

(***************************************************************************)
(* SpecTwin: process on one text and two patches that differ only in the   *)
(* file1_s, file2_l and file2_s fields of their headers, step by step.     *)
(***************************************************************************)
InitTwin ==
    /\ text \in Texts
    /\ contexts \in PatchesOf(MaxTwinSize, HeaderRests)
    /\ contexts2 \in Variants(contexts)
    /\ frame = InitFrame
    /\ frame2 = InitFrame
    /\ tree = IdleTree
    /\ overflow_checks = FALSE
    /\ cv = InitConv

StepTwin ==
    /\ ~(Returned(frame) /\ Returned(frame2))
    /\ frame' = IF Returned(frame) THEN frame
                ELSE Advance(text, contexts, frame)
    /\ frame2' = IF Returned(frame2) THEN frame2
                 ELSE Advance(text, contexts2, frame2)
    /\ UNCHANGED <<text, contexts, contexts2, tree, overflow_checks, cv>>

NextTwin == StepTwin

SpecTwin == InitTwin /\ [][NextTwin]_vars

(***************************************************************************)
(* SpecConvert: one call of convert on any parse tree, in either build.    *)
(***************************************************************************)
InitConvert ==
    /\ tree \in ParseResults
    /\ overflow_checks \in BOOLEAN
    /\ cv = InitConv
    /\ text = <<>>
    /\ contexts = <<>>
    /\ contexts2 = <<>>
    /\ frame = InitFrame
    /\ frame2 = InitFrame

ConvOthers ==
    <<text, contexts, contexts2, frame, frame2, tree, overflow_checks>>

ConvAt(pc) == ~Returned(cv) /\ cv.pc = pc

ConvAtRule(rules) == ConvAt("elems") /\ CurElem(tree, cv).rule \in rules

StepConvParse ==
    /\ ConvAt("parse")
    /\ cv' = ConvParse(tree, overflow_checks, cv)
    /\ UNCHANGED ConvOthers

StepConvFile1Header ==
    /\ ConvAtRule({"file1_header"})
    /\ cv' = ConvFile1Header(tree, overflow_checks, cv)
    /\ UNCHANGED ConvOthers

StepConvFile2Header ==
    /\ ConvAtRule({"file2_header"})
    /\ cv' = ConvFile2Header(tree, overflow_checks, cv)
    /\ UNCHANGED ConvOthers

StepConvContext ==
    /\ ConvAtRule({"context"})
    /\ cv' = ConvContext(tree, overflow_checks, cv)
    /\ UNCHANGED ConvOthers

StepConvSkip ==
    /\ ConvAt("elems")
    /\ CurElem(tree, cv).rule \notin {"file1_header", "file2_header", "context"}
    /\ cv' = ConvSkip(tree, overflow_checks, cv)
    /\ UNCHANGED ConvOthers

StepConvFinish ==
    /\ ConvAt("finish")
    /\ cv' = ConvFinish(tree, overflow_checks, cv)
    /\ UNCHANGED ConvOthers

NextConvert ==
    \/ StepConvParse
    \/ StepConvFile1Header
    \/ StepConvFile2Header
    \/ StepConvContext
    \/ StepConvSkip
    \/ StepConvFinish

SpecConvert == InitConvert /\ [][NextConvert]_vars

(***************************************************************************)
(* What a patch is meant to produce, stated without the applier: used by   *)
(* the properties below.                                                   *)
(***************************************************************************)
Start(ctxs, k) == ctxs[k].header.file1_l

\* the number of Context and Delete lines among data
Consumed(data) == Len(SelectSeq(data, LAMBDA l : l.kind # "Insert"))

\* the texts of the Context and Insert lines of data, in order
Kept(data) ==
    LET sel == SelectSeq(data, LAMBDA l : l.kind # "Delete")
    IN  [j \in 1..Len(sel) |-> sel[j].data]

\* the cursor a hunk leaves when all its lines match (0 before the first)
CursorAfter(ctxs, k) ==
    IF k = 0 THEN 0 ELSE Start(ctxs, k) + Consumed(ctxs[k].data)

\* every Context and Delete line of data equals the original line at the
\* cursor, for a hunk that starts at cur
MatchesAt(txt, data, cur) ==
    \A j \in 1..Len(data) :
        data[j].kind # "Insert" =>
            LET pos == cur + Consumed(SubSeq(data, 1, j - 1))
            IN  pos < Len(txt) /\ txt[pos + 1] = data[j].data

\* non-decreasing starts, each at or after the cursor left by the previous
\* hunk, all Context and Delete lines matching
Applies(txt, ctxs) ==
    \A k \in DOMAIN ctxs :
        /\ Start(ctxs, k) >= CursorAfter(ctxs, k - 1)
        /\ k > 1 => Start(ctxs, k) >= Start(ctxs, k - 1)
        /\ MatchesAt(txt, ctxs[k].data, Start(ctxs, k))

StartsInside(txt, ctxs) == \A k \in DOMAIN ctxs : Start(ctxs, k) <= Len(txt)

RECURSIVE ExpectedFrom(_, _, _)
ExpectedFrom(txt, ctxs, k) ==
    IF k > Len(ctxs)
    THEN SubSeq(txt, CursorAfter(ctxs, k - 1) + 1, Len(txt))
    ELSE SubSeq(txt, CursorAfter(ctxs, k - 1) + 1, Start(ctxs, k))
            \o Kept(ctxs[k].data)
            \o ExpectedFrom(txt, ctxs, k + 1)

Expected(txt, ctxs) == ExpectedFrom(txt, ctxs, 1)

(***************************************************************************)
(* C1, as stated: for every patch whose hunks have non-decreasing starts,  *)
(* each at or after the cursor left by the previous hunk, and whose        *)
(* Context and Delete lines all equal the original line at the cursor,     *)
(* process returns Ok with the lines between hunks, each hunk's Context    *)
(* and Insert texts, and the lines after the last hunk.                    *)
(***************************************************************************)
C1_AsStated ==
    (Returned(frame) /\ Applies(text, contexts)) =>
        (IsOk(frame.ret) /\ frame.ret.value = Expected(text, contexts))

(***************************************************************************)
(* C1, amended: the same, for the patches none of whose hunks starts       *)
(* beyond the end of the original.                                         *)
(***************************************************************************)
C1_CleanApply ==
    (Returned(frame) /\ Applies(text, contexts)
                     /\ StartsInside(text, contexts)) =>
        (IsOk(frame.ret) /\ frame.ret.value = Expected(text, contexts))

\* two hunks with original lines between them and after them, and a line
C1_Witness ==
    /\ Returned(frame) /\ IsOk(frame.ret)
    /\ Applies(text, contexts) /\ StartsInside(text, contexts)
    /\ Len(contexts) = 2
    /\ Start(contexts, 2) > CursorAfter(contexts, 1)
    /\ CursorAfter(contexts, 2) < Len(text)
    /\ \E k \in DOMAIN contexts : Len(contexts[k].data) > 0

(***************************************************************************)
(* C2: a Context or Delete line whose text differs from the original line  *)
(* at the cursor makes process return PatchInputMismatch with the cursor   *)
(* as index, and nothing else: the value returned holds no line sequence.  *)
(* Conversely PatchInputMismatch is returned at such a line only.          *)
(***************************************************************************)
Diverges(f, ctxs) ==
    /\ f.pc = "line"
    /\ CurLine(ctxs, f).kind # "Insert"
    /\ HasIndex(text, f.file1_ptr)
    /\ Get(text, f.file1_ptr) # CurLine(ctxs, f).data

C2_MismatchAtCursor ==
    /\ [][(~Returned(frame) /\ Diverges(frame, contexts)) =>
            frame'.ret = PatchInputMismatch(frame.file1_ptr)]_vars
    /\ []((IsErr(frame.ret) /\ frame.ret.error = "PatchInputMismatch") =>
            (Diverges(frame, contexts) /\ frame.ret.index = frame.file1_ptr))

\* a mismatch after part of the result was built
C2_Witness ==
    /\ Returned(frame)
    /\ frame.ret = PatchInputMismatch(frame.file1_ptr)
    /\ frame.file1_ptr > 0
    /\ Len(frame.file2_text) > 0

(***************************************************************************)
(* C3, as stated: a hunk whose start is at or beyond the length n of the   *)
(* original makes process return AbruptInput with that start.  (The range  *)
(* of the trailing copy, file1_ptr..n, holds no index at or beyond n.)     *)
(***************************************************************************)
C3_AsStated ==
    Returned(frame) =>
        \A k \in DOMAIN contexts :
            Start(contexts, k) >= Len(text) =>
                frame.ret = AbruptInput(Start(contexts, k))

(***************************************************************************)
(* C3, amended: a hunk whose start is strictly beyond n makes process      *)
(* fail: it returns an error in that hunk or before it, and when it        *)
(* reaches that hunk the error is AbruptInput with index n, the first      *)
(* index the original lacks.                                               *)
(***************************************************************************)
C3_StartBeyondEnd ==
    Returned(frame) =>
        \A k \in DOMAIN contexts :
            Start(contexts, k) > Len(text) =>
                /\ IsErr(frame.ret)
                /\ frame.ci <= k
                /\ frame.ci = k => frame.ret = AbruptInput(Len(text))

\* the second hunk starts two past the end of a non-empty original
C3_Witness ==
    /\ Returned(frame)
    /\ Len(text) > 0
    /\ frame.ci = 2
    /\ Start(contexts, 2) > Len(text) + 1
    /\ frame.ret = AbruptInput(Len(text))

(***************************************************************************)
(* C5: one hunk of Insert lines only, at start k <= n, yields the first k  *)
(* original lines, the inserted texts in patch order, and the other n - k  *)
(* original lines.                                                         *)
(***************************************************************************)
PureInsertion ==
    /\ Len(contexts) = 1
    /\ \A j \in DOMAIN contexts[1].data : contexts[1].data[j].kind = "Insert"
    /\ Start(contexts, 1) <= Len(text)

C5_PureInsertion ==
    (Returned(frame) /\ PureInsertion) =>
        /\ IsOk(frame.ret)
        /\ Len(frame.ret.value) = Len(text) + Len(contexts[1].data)
        /\ frame.ret.value =
              SubSeq(text, 1, Start(contexts, 1))
                \o [j \in DOMAIN contexts[1].data |-> contexts[1].data[j].data]
                \o SubSeq(text, Start(contexts, 1) + 1, Len(text))

\* two lines inserted at the end of a non-empty original
C5_Witness ==
    /\ Returned(frame) /\ IsOk(frame.ret)
    /\ PureInsertion
    /\ Len(contexts[1].data) = 2
    /\ Len(text) > 0
    /\ Start(contexts, 1) = Len(text)

(***************************************************************************)
(* C6: a patch with no hunks yields the original, line for line.           *)
(***************************************************************************)
C6_NoHunks ==
    (Returned(frame) /\ contexts = <<>>) => frame.ret = Ok(text)

C6_Witness ==
    /\ Returned(frame)
    /\ contexts = <<>>
    /\ Len(text) = MaxLen
    /\ text[1] # text[2]

(***************************************************************************)
(* C8, as stated: the cursor never decreases from one step to the next.    *)
(***************************************************************************)
C8_ForwardOnly == [][frame'.file1_ptr >= frame.file1_ptr]_vars

(***************************************************************************)
(* C9: two patches that differ only in file1_s, file2_l and file2_s give   *)
(* the same outcome on every original.                                     *)
(***************************************************************************)
C9_SameOutcome ==
    /\ Returned(frame) <=> Returned(frame2)
    /\ Returned(frame) => frame.ret = frame2.ret

\* the patches differ, and the first header disagrees with its lines
C9_Witness ==
    /\ Returned(frame) /\ Returned(frame2)
    /\ IsOk(frame.ret)
    /\ Len(contexts) > 0
    /\ contexts[1].header # contexts2[1].header
    /\ contexts[1].header.file1_s # Consumed(contexts[1].data)
    /\ contexts2[1].header.file1_s # Consumed(contexts2[1].data)
    /\ Len(contexts[1].data) > 0

(***************************************************************************)
(* C10: while process has not failed the cursor is at most n; the trailing *)
(* copy never returns an error; a Context or Delete line reached with the  *)
(* cursor at n returns AbruptInput with index n.                           *)
(***************************************************************************)
C10_CursorInside ==
    /\ ~IsErr(frame.ret) => frame.file1_ptr <= Len(text)
    /\ (frame.pc = "rest" \/ frame.pc = "ret") => ~IsErr(frame.ret)
    /\ (Returned(frame) /\ frame.pc = "line"
            /\ CurLine(contexts, frame).kind # "Insert"
            /\ frame.file1_ptr = Len(text)) =>
                frame.ret = AbruptInput(Len(text))

\* a Delete line reached at the end of a non-empty original
C10_Witness ==
    /\ Returned(frame)
    /\ frame.pc = "line"
    /\ CurLine(contexts, frame).kind = "Delete"
    /\ frame.file1_ptr = Len(text)
    /\ Len(text) > 0

(***************************************************************************)
(* What a header declares, stated without the builder.                     *)
(***************************************************************************)
RECURSIVE Decimal(_)
Decimal(ds) ==
    IF ds = <<>> THEN 0
    ELSE Decimal(SubSeq(ds, 1, Len(ds) - 1)) * 10 + ds[Len(ds)]

ValidNumber(ds) == ds # <<>> /\ Decimal(ds) <= UsizeMax

FieldText(header, rule) ==
    SelectSeq(header.inner, LAMBDA c : c.rule = rule)[1].str

HeaderLeads(e) == e.inner # <<>> /\ Head(e.inner).rule = "context_header"

\* a hunk node led by a header whose four fields are valid numbers
ValidHunk(e) ==
    /\ e.rule = "context"
    /\ HeaderLeads(e)
    /\ \A r \in FieldRules : ValidNumber(FieldText(Head(e.inner), r))

\* convert has dealt with child k of the whole-patch node
Processed(k) ==
    /\ cv.pc # "parse"
    /\ cv.idx > k \/ (Returned(cv) /\ cv.idx = k)

\* the number of hunk nodes among the first k children
HunksAmong(k) == Cardinality({j \in 1..k : tree.inner[j].rule = "context"})

(***************************************************************************)
(* C4, as stated: convert accepts every hunk header whose four fields are  *)
(* valid non-negative integers, old-start 0 and new-start 0 included, and  *)
(* stores old-start minus one and new-start minus one, both non-negative,  *)
(* and the two lengths as parsed.                                          *)
(***************************************************************************)
C4_AsStated ==
    \A k \in DOMAIN tree.inner :
        (ValidHunk(tree.inner[k]) /\ Processed(k)) =>
            /\ cv.idx > k
            /\ LET h == cv.contexts[HunksAmong(k)].header
                   n == Head(tree.inner[k].inner)
               IN  /\ h.file1_l = Decimal(FieldText(n, "file1_l")) - 1
                   /\ h.file2_l = Decimal(FieldText(n, "file2_l")) - 1
                   /\ h.file1_l >= 0 /\ h.file2_l >= 0
                   /\ h.file1_s = Decimal(FieldText(n, "file1_s"))
                   /\ h.file2_s = Decimal(FieldText(n, "file2_s"))

(***************************************************************************)
(* C7: convert builds a hunk only from a hunk node led by its header.  It  *)
(* never gets past a hunk node that is not, and returns no Patch for a     *)
(* tree holding one; at a hunk node with no children it returns            *)
(* NotFound("context_header"), at one whose first child is another rule    *)
(* MalformedPatch.                                                         *)
(***************************************************************************)
C7_HeaderLeadsHunk ==
    /\ \A k \in DOMAIN tree.inner :
          (tree.inner[k].rule = "context" /\ ~HeaderLeads(tree.inner[k])) =>
              (cv.idx <= k /\ ~IsOk(cv.ret))
    /\ Len(cv.contexts) <= HunksAmong(cv.idx - 1)
    /\ (Returned(cv) /\ cv.pc = "elems"
            /\ CurElem(tree, cv).rule = "context") =>
          /\ CurElem(tree, cv).inner = <<>> =>
                cv.ret = NotFound("context_header")
          /\ (CurElem(tree, cv).inner # <<>>
                /\ Head(CurElem(tree, cv).inner).rule # "context_header") =>
                cv.ret = MalformedPatch

\* both paths present, a well-formed hunk first, then a hunk that starts
\* with a line
C7_Witness ==
    /\ Returned(cv)
    /\ cv.input.some /\ cv.output.some
    /\ Len(cv.contexts) = 1
    /\ CurElem(tree, cv).rule = "context"
    /\ CurElem(tree, cv).inner # <<>>
    /\ Head(CurElem(tree, cv).inner).rule = "line_context"
    /\ cv.ret = MalformedPatch

====
